---------------------------- MODULE Spec2Model ----------------------------
(***************************************************************************)
(* A model of ttyvid's core: the ANSI stream parser, the terminal          *)
(* emulator (grid, state, alternate screen), the frame-loop driver with    *)
(* its timestamp preprocessing, and the diff-coding GIF encoder.           *)
(*                                                                         *)
(* Characters are Unicode code points, bytes are 0..255, both integers.    *)
(* i32 values keep their width: an addition or multiplication that leaves  *)
(* the i32 range wraps (the release build) and raises the state's          *)
(* `overflow` flag (the panic of a build with overflow checks).            *)
(***************************************************************************)
EXTENDS Integers, Sequences, FiniteSets, TLC

(***************************************************************************)
(* Bounds of the model.                                                    *)
(***************************************************************************)
Width == 3
Height == 3
MaxFeeds == 5
GifW == 2
GifH == 2
MaxFrames == 3
MaxEvents == 3
MaxTime == 3
GapMaxTime == 7

(***************************************************************************)
(* Program constants.                                                      *)
(***************************************************************************)
DefaultFg == 7
DefaultBg == 0
ESC == 27
BEL == 7
BS == 8
FI == 9
LF == 10
CR == 13
SPACE == 32
REPLACEMENT == 65533
I32Max == 2147483647

VARIABLES
    emu,          \* the TerminalEmulator
    auto_wrap,    \* the auto_wrap argument of TerminalEmulator::new
    profile,      \* "release" (i32 wraps) or "debug" (overflow panics)
    panicked,     \* feed_bytes unwound with a panic
    nfeeds,       \* number of feed_bytes calls made
    input,        \* SpecSplit: the whole byte stream B; SpecCsi: the bytes of the last feed
    pos,          \* SpecSplit: how many bytes of B were fed so far
    previous_frame, \* GifEncoder.previous_frame (NoFrame for None)
    older_frame,  \* the value previous_frame had when the last add_frame began
    frame,        \* the frame add_frame handed to the gif writer last
    composite,    \* what a viewer shows after painting the frames so far
    nframes,      \* number of add_frame calls made
    file_lines,   \* the event lines of the asciicast file: [time, kind, data]
    events,       \* Vec<Event> of convert_recording
    args,         \* the command line: speed, no_gaps, fps, trailer
    pc,           \* where convert_recording is
    frame_rate, frame_count, total_frame_count,
    frame_num, event_idx,
    fed           \* the indices of the events handed to feed_bytes, in order

emuVars == <<emu, auto_wrap, profile, panicked, nfeeds, input, pos>>
gifVars == <<previous_frame, older_frame, frame, composite, nframes>>
drvVars == <<file_lines, events, args, pc, frame_rate, frame_count, total_frame_count,
             frame_num, event_idx, fed>>

vars == <<emuVars, gifVars, drvVars>>

(***************************************************************************)
(* i32 arithmetic.                                                         *)
(***************************************************************************)
I32Min == -I32Max - 1

\* a + b leaves the i32 range
AddOverflows(a, b) ==
    \/ (b > 0 /\ a > I32Max - b)
    \/ (b < 0 /\ a < I32Min - b)

\* a + b in i32, wrapping (two's complement)
WrappingAdd(a, b) ==
    IF b > 0 /\ a > I32Max - b THEN (a - I32Max - 1) + (b - I32Max - 1)
    ELSE IF b < 0 /\ a < I32Min - b THEN (a + I32Max + 1) + (b + I32Max + 1)
    ELSE a + b

\* -b is representable except for I32Min, which no parameter reaches
WrappingSub(a, b) == WrappingAdd(a, -b)
SubOverflows(a, b) == AddOverflows(a, -b)

(***************************************************************************)
(* Cell and Grid (cell.rs, grid.rs).  The grid is row-major, as in the     *)
(* code: index y * width + x.                                              *)
(***************************************************************************)
Cell(ch, fg, bg) == [ch |-> ch, fg |-> fg, bg |-> bg, flags |-> 0]

EmptyCell(fg, bg) == Cell(SPACE, fg, bg)

GridNew(fg, bg) == [i \in 0..(Width * Height - 1) |-> EmptyCell(fg, bg)]

\* x and y arrive as `i32 as usize`: a negative value is far above the width
write_cell(g, x, y, cell) ==
    IF x >= 0 /\ x < Width /\ y >= 0 /\ y < Height
    THEN [g EXCEPT ![y * Width + x] = cell]
    ELSE g

GridClear(g, fg, bg) == [i \in DOMAIN g |-> EmptyCell(fg, bg)]

Row(g, y) == [x \in 0..(Width - 1) |-> g[y * Width + x]]

(***************************************************************************)
(* scroll_region_up / scroll_region_down take top and bottom as            *)
(* `i32 as usize`.  A negative i32 becomes 2^64 + v.  Parameters are       *)
(* never negative, so top and bottom are >= -1, and -1 casts to            *)
(* usize::MAX.                                                             *)
(***************************************************************************)
\* region_height = bottom.saturating_sub(top) + 1; 0 stands for the wrapped
\* usize::MAX + 1, I32Max for a value above every line count
RegionHeight(top, bottom) ==
    IF (top >= 0) = (bottom >= 0)
    THEN (IF bottom > top THEN bottom - top ELSE 0) + 1
    ELSE IF top < 0 THEN 1
    ELSE IF top = 0 /\ bottom = -1 THEN 0
    ELSE I32Max

\* y is in top..=bottom.min(height - 1), all as usize
InClearRange(y, top, bottom) ==
    top >= 0 /\ y >= top /\ (bottom < 0 \/ y <= bottom)

\* the usize additions of the scroll functions that overflow
ScrollOverflows(top, bottom, lines) ==
    \/ (top = 0 /\ bottom = -1)
    \/ (bottom = -1 /\ top > 0 /\ lines < RegionHeight(top, bottom))

scroll_region_up(g, top, bottom, lines, fg, bg) ==
    IF lines = 0 \/ lines >= RegionHeight(top, bottom)
    THEN [i \in DOMAIN g |->
            IF InClearRange(i \div Width, top, bottom) THEN EmptyCell(fg, bg) ELSE g[i]]
    ELSE
        LET \* for y in top..=(bottom - lines).min(height - 1): copy row y + lines
            shifted == [i \in DOMAIN g |->
                LET y == i \div Width
                    src_y == y + lines
                IN  IF /\ top >= 0 /\ y >= top
                       /\ (bottom < 0 \/ y <= bottom - lines)
                       /\ (bottom < 0 \/ src_y <= bottom) /\ src_y < Height
                    THEN g[src_y * Width + (i % Width)]
                    ELSE g[i]]
            \* clear_start = (bottom + 1).saturating_sub(lines); usize::MAX + 1 wraps to 0
            clear_start == IF bottom < 0 THEN 0
                           ELSE IF bottom + 1 > lines THEN bottom + 1 - lines ELSE 0
        IN  [i \in DOMAIN g |->
                LET y == i \div Width
                IN  IF y >= clear_start /\ (bottom < 0 \/ y <= bottom)
                    THEN EmptyCell(fg, bg)
                    ELSE shifted[i]]

scroll_region_down(g, top, bottom, lines, fg, bg) ==
    IF lines = 0 \/ lines >= RegionHeight(top, bottom)
    THEN [i \in DOMAIN g |->
            IF InClearRange(i \div Width, top, bottom) THEN EmptyCell(fg, bg) ELSE g[i]]
    ELSE
        LET \* for y in (top + lines..=bottom.min(height - 1)).rev(): copy row y - lines
            shifted == [i \in DOMAIN g |->
                LET y == i \div Width
                    src_y == IF y > lines THEN y - lines ELSE 0
                IN  IF /\ top >= 0 /\ y >= top + lines
                       /\ (bottom < 0 \/ y <= bottom)
                       /\ src_y >= top
                    THEN g[src_y * Width + (i % Width)]
                    ELSE g[i]]
            \* for y in top..(top + lines).min(bottom + 1).min(height);
            \* usize::MAX + 1 wraps to 0 and the range is empty
            clear_end == IF bottom < 0 THEN 0
                         ELSE IF top + lines < bottom + 1 THEN top + lines ELSE bottom + 1
        IN  [i \in DOMAIN g |->
                LET y == i \div Width
                IN  IF top >= 0 /\ y >= top /\ y < clear_end
                    THEN EmptyCell(fg, bg)
                    ELSE shifted[i]]

(***************************************************************************)
(* TerminalState (state.rs).  width, height, mode ("linux"), the default   *)
(* colours and flags never change after construction; they are the         *)
(* definitions Width, Height, DefaultFg, DefaultBg.                        *)
(***************************************************************************)
StateNew ==
    [cursor_x |-> 0, cursor_y |-> 0,
     reverse_video |-> FALSE, bold |-> FALSE, text_mode |-> FALSE,
     autowrap |-> TRUE,
     foreground |-> DefaultFg, background |-> DefaultBg,
     pending_wrap |-> FALSE, display_cursor |-> FALSE,
     scroll |-> 0, scroll_top |-> 0, scroll_bottom |-> Height - 1,
     saved_cursor_x |-> 0, saved_cursor_y |-> 0,
     overflow |-> FALSE]

set_scroll_region(s, top, bottom) ==
    [s EXCEPT !.scroll = 0, !.scroll_top = top, !.scroll_bottom = bottom]

\* the five steps of check_bounds, in the order of the code
ClearPendingWrap(s) ==
    IF s.pending_wrap /\ (\/ s.cursor_x # Width - 1
                          \/ s.cursor_y # Height - 1
                          \/ ~s.autowrap)
    THEN [s EXCEPT !.pending_wrap = FALSE] ELSE s

ClampLeft(s) == IF s.cursor_x < 0 THEN [s EXCEPT !.cursor_x = 0] ELSE s

ClampRight(s) == IF s.cursor_x >= Width THEN [s EXCEPT !.cursor_x = Width - 1] ELSE s

ClampTop(s) ==
    IF s.cursor_y < s.scroll_top
    THEN [s EXCEPT
            !.scroll = IF s.text_mode
                       THEN WrappingSub(@, WrappingSub(s.scroll_top, s.cursor_y))
                       ELSE @,
            !.overflow = @ \/ (s.text_mode /\
                          (\/ SubOverflows(s.scroll_top, s.cursor_y)
                           \/ SubOverflows(s.scroll, WrappingSub(s.scroll_top, s.cursor_y)))),
            !.cursor_y = s.scroll_top]
    ELSE s

ClampBottom(s) ==
    IF s.cursor_y > s.scroll_bottom
    THEN [s EXCEPT
            !.scroll = IF s.text_mode
                       THEN WrappingAdd(@, WrappingSub(s.cursor_y, s.scroll_bottom))
                       ELSE @,
            !.overflow = @ \/ (s.text_mode /\
                          (\/ SubOverflows(s.cursor_y, s.scroll_bottom)
                           \/ AddOverflows(s.scroll, WrappingSub(s.cursor_y, s.scroll_bottom)))),
            !.cursor_y = s.scroll_bottom]
    ELSE s

check_bounds(s) == ClampBottom(ClampTop(ClampRight(ClampLeft(ClearPendingWrap(s)))))

cursor_up(s, distance) ==
    check_bounds([s EXCEPT !.cursor_y = WrappingSub(@, distance),
                           !.overflow = @ \/ SubOverflows(s.cursor_y, distance)])

cursor_down(s, distance) ==
    check_bounds([s EXCEPT !.cursor_y = WrappingAdd(@, distance),
                           !.overflow = @ \/ AddOverflows(s.cursor_y, distance)])

cursor_left(s, distance) ==
    check_bounds([s EXCEPT !.cursor_x = WrappingSub(@, distance),
                           !.overflow = @ \/ SubOverflows(s.cursor_x, distance)])

\* while self.cursor_x >= self.width { cursor_x -= width; cursor_down(1) }
RECURSIVE WrapLoop(_)
WrapLoop(s) ==
    IF s.cursor_x >= Width
    THEN WrapLoop(cursor_down([s EXCEPT !.cursor_x = @ - Width], 1))
    ELSE s

\* if self.autowrap { while ... }
WrapIfAutowrap(s) == IF s.autowrap THEN WrapLoop(s) ELSE s

\* a variant without the pending-wrap rule: the cursor wraps as soon as it
\* passes the last column
cursor_right_wraps_at_once(s, distance) ==
    check_bounds(WrapIfAutowrap([s EXCEPT !.cursor_x = WrappingAdd(@, distance),
                                          !.overflow = @ \/ AddOverflows(s.cursor_x, distance)]))

cursor_right(s, distance) ==
    IF ~s.pending_wrap /\ s.autowrap /\ s.cursor_x = Width - 1
    THEN [s EXCEPT !.pending_wrap = TRUE]
    ELSE check_bounds(WrapIfAutowrap(
             [s EXCEPT !.cursor_x = WrappingAdd(@, distance),
                       !.overflow = @ \/ AddOverflows(s.cursor_x, distance)]))

cursor_absolute_x(s, position) == check_bounds([s EXCEPT !.cursor_x = position])

cursor_absolute(s, position_x, position_y) ==
    check_bounds([s EXCEPT !.cursor_x = position_x, !.cursor_y = position_y])

cursor_save_position(s) ==
    [s EXCEPT !.saved_cursor_x = s.cursor_x, !.saved_cursor_y = s.cursor_y]

cursor_restore_position(s) ==
    [s EXCEPT !.cursor_x = s.saved_cursor_x, !.cursor_y = s.saved_cursor_y]


(***************************************************************************)
(* String::from_utf8_lossy (mod.rs line 55) on the bytes of one chunk.     *)
(* One- and two-byte forms are decoded; a byte that starts no valid form   *)
(* here (a lone continuation byte, 0xC0, 0xC1, a lead byte whose           *)
(* continuation is missing) becomes U+FFFD.  The byte alphabets of the     *)
(* specifications stay below 0xE0, so three- and four-byte forms do not    *)
(* occur.                                                                  *)
(***************************************************************************)
RECURSIVE from_utf8_lossy(_)
from_utf8_lossy(bytes) ==
    IF bytes = <<>> THEN <<>>
    ELSE
        LET b == Head(bytes)
            rest == Tail(bytes)
        IN  IF b < 128 THEN <<b>> \o from_utf8_lossy(rest)
            ELSE IF /\ b >= 194 /\ b <= 223
                    /\ rest # <<>> /\ Head(rest) >= 128 /\ Head(rest) <= 191
            THEN <<(b - 192) * 64 + (Head(rest) - 128)>> \o from_utf8_lossy(Tail(rest))
            ELSE <<REPLACEMENT>> \o from_utf8_lossy(rest)

(***************************************************************************)
(* ANSI_REGEX (parser.rs lines 16-33): eight alternatives, tried in order  *)
(* at the leftmost position where one matches.  MatchAt gives the          *)
(* alternative and the length of the match at position i (1-based), or     *)
(* kind "None".                                                            *)
(***************************************************************************)
NoMatch == [kind |-> "None", len |-> 0]

At(t, i) == IF i >= 1 /\ i <= Len(t) THEN t[i] ELSE -1

\* [cDEHMZ6789>=i]
IsSingleFinal(c) == c \in {99, 68, 69, 72, 77, 90, 54, 55, 56, 57, 62, 61, 105}

\* [B0UK]
IsCharsetFinal(c) == c \in {66, 48, 85, 75}

\* \d | ; | < | > | = | \?
IsParamChar(c) == (c >= 48 /\ c <= 57) \/ c \in {59, 60, 62, 61, 63}

\* [a-zA-Z`~]
IsCsiFinal(c) == (c >= 65 /\ c <= 90) \/ (c >= 97 /\ c <= 122) \/ c \in {96, 126}

\* the first position >= i that holds no parameter character
RECURSIVE SkipParams(_, _)
SkipParams(t, i) ==
    IF i <= Len(t) /\ IsParamChar(t[i]) THEN SkipParams(t, i + 1) ELSE i

\* .*?(?:ESC \\ | BEL | 0x9C) from position j: the position of the last
\* character of the shortest match, 0 when there is none ('.' stops at LF)
RECURSIVE LazyOscEnd(_, _)
LazyOscEnd(t, j) ==
    IF j > Len(t) THEN 0
    ELSE IF t[j] = BEL \/ t[j] = 156 THEN j
    ELSE IF t[j] = ESC /\ At(t, j + 1) = 92 THEN j + 1
    ELSE IF t[j] = LF THEN 0
    ELSE LazyOscEnd(t, j + 1)

\* (.*?) ESC \\ from position j
RECURSIVE LazyTitleEnd(_, _)
LazyTitleEnd(t, j) ==
    IF j > Len(t) THEN 0
    ELSE IF t[j] = ESC /\ At(t, j + 1) = 92 THEN j + 1
    ELSE IF t[j] = LF THEN 0
    ELSE LazyTitleEnd(t, j + 1)

MatchAt(t, i) ==
    LET c0 == At(t, i)
        c1 == At(t, i + 1)
        pend == SkipParams(t, i + 2)
        oscStart == IF c0 = 157 THEN i + 1 ELSE i + 2
        oscEnd == LazyOscEnd(t, oscStart)
        titleEnd == LazyTitleEnd(t, i + 2)
    IN  IF c0 = ESC /\ IsSingleFinal(c1)
        THEN [kind |-> "Single", len |-> 2]
        ELSE IF c0 = ESC /\ c1 = 92 /\ At(t, i + 2) = 37 /\ At(t, i + 3) \in {64, 71, 42}
        THEN [kind |-> "CharSet", len |-> 4]
        ELSE IF c0 = ESC /\ c1 = 40 /\ IsCharsetFinal(At(t, i + 2))
        THEN [kind |-> "G0", len |-> 3]
        ELSE IF c0 = ESC /\ c1 = 41 /\ IsCharsetFinal(At(t, i + 2))
        THEN [kind |-> "G1", len |-> 3]
        ELSE IF c0 = ESC /\ c1 = 91 /\ IsCsiFinal(At(t, pend))
        THEN [kind |-> "Csi", len |-> (pend - i + 1) + (IF At(t, pend + 1) = 2 THEN 1 ELSE 0)]
        ELSE IF ((c0 = ESC /\ c1 = 93) \/ c0 = 157) /\ oscEnd # 0
        THEN [kind |-> "Osc", len |-> oscEnd - i + 1]
        ELSE IF /\ c0 = ESC /\ c1 = 91 /\ At(t, i + 2) = 50 /\ At(t, i + 3) = 48
                /\ At(t, i + 4) \in {48, 49} /\ At(t, i + 5) = 126
        THEN [kind |-> "BracketPaste", len |-> 6]
        ELSE IF c0 = ESC /\ c1 = 107 /\ titleEnd # 0
        THEN [kind |-> "Title", len |-> titleEnd - i + 1]
        ELSE NoMatch

\* the leftmost position >= i where the regex matches, 0 when there is none
RECURSIVE FindMatch(_, _)
FindMatch(t, i) ==
    IF i > Len(t) THEN 0
    ELSE IF (t[i] = ESC \/ t[i] = 157) /\ MatchAt(t, i).kind # "None" THEN i
    ELSE FindMatch(t, i + 1)

(***************************************************************************)
(* parse_csi_params (parser.rs lines 191-235).                             *)
(***************************************************************************)
NoInt == -1

\* str::parse::<i32>() of a parameter item: NoInt for Err (empty, a
\* non-digit, a value above i32::MAX); items hold no sign character
RECURSIVE ParseDigits(_, _)
ParseDigits(item, acc) ==
    IF item = <<>> THEN acc
    ELSE
        LET d == Head(item) - 48
        IN  IF d < 0 \/ d > 9 THEN NoInt
            ELSE IF acc > (I32Max - d) \div 10 THEN NoInt
            ELSE ParseDigits(Tail(item), acc * 10 + d)

ParseI32(item) == IF item = <<>> THEN NoInt ELSE ParseDigits(item, 0)

\* str::split(';'): the items between the separators, empty items kept
RECURSIVE SplitSemi(_, _)
SplitSemi(str, cur) ==
    IF str = <<>> THEN <<cur>>
    ELSE IF Head(str) = 59 THEN <<cur>> \o SplitSemi(Tail(str), <<>>)
    ELSE SplitSemi(Tail(str), Append(cur, Head(str)))

\* filter_map(|s| s.parse().ok())
RECURSIVE ParseOk(_)
ParseOk(items) ==
    IF items = <<>> THEN <<>>
    ELSE IF ParseI32(Head(items)) = NoInt THEN ParseOk(Tail(items))
    ELSE <<ParseI32(Head(items))>> \o ParseOk(Tail(items))

\* H and f: if part.is_empty() { 1 } else { part.parse().unwrap_or(1) }
RECURSIVE ParseOrOne(_)
ParseOrOne(items) ==
    IF items = <<>> THEN <<>>
    ELSE <<IF ParseI32(Head(items)) = NoInt THEN 1 ELSE ParseI32(Head(items))>>
         \o ParseOrOne(Tail(items))

\* command is the final character; the result is the command key (a
\* sequence of characters) and the parameters
parse_csi_params(param_str, command) ==
    IF command = 72 \/ command = 102
    THEN LET params == ParseOrOne(SplitSemi(param_str, <<>>))
         IN  [command |-> <<command>>,
              params |-> IF Len(params) < 2 THEN Append(params, 1) ELSE params]
    ELSE IF param_str # <<>> /\ Head(param_str) = 63
    THEN [command |-> <<63, command>>,
          params |-> ParseOk(SplitSemi(Tail(param_str), <<>>))]
    ELSE
        LET params == ParseOk(SplitSemi(param_str, <<>>))
        IN  [command |-> <<command>>,
             params |-> IF params # <<>> THEN params
                        ELSE IF command \in {74, 75, 109} THEN <<0>>
                        ELSE IF command \in {65, 66, 67, 68} THEN <<1>>
                        ELSE <<>>]

(***************************************************************************)
(* parse_escape_sequence and parse_ansi_stream_with_position (parser.rs    *)
(* lines 69-189).                                                          *)
(***************************************************************************)
TextEvent(chars) == [type |-> "Text", chars |-> chars]

CommandEvent(esc_type, command, params) ==
    [type |-> "Command", esc_type |-> esc_type, command |-> command, params |-> params]

CsiEvent(r) == CommandEvent("Csi", r.command, r.params)

\* the parameter string and the final character of the CSI sequence at i,
\* whose parameters end before position pend
CsiParams(t, i, pend) == parse_csi_params(SubSeq(t, i + 2, pend - 1), t[pend])

\* m is the match at position i of text t
parse_escape_sequence(t, i, m) ==
    IF m.kind = "Single" THEN CommandEvent("Single", <<t[i + 1]>>, <<>>)
    ELSE IF m.kind = "CharSet" THEN CommandEvent("CharSet", <<t[i + 3]>>, <<>>)
    ELSE IF m.kind = "G0" THEN CommandEvent("G0", <<t[i + 2]>>, <<>>)
    ELSE IF m.kind = "G1" THEN CommandEvent("G1", <<t[i + 2]>>, <<>>)
    ELSE IF m.kind = "Csi" THEN CsiEvent(CsiParams(t, i, SkipParams(t, i + 2)))
    ELSE IF m.kind = "Osc" THEN CommandEvent("Osc", <<>>, <<>>)
    ELSE IF m.kind = "BracketPaste"
    THEN CommandEvent("BracketPaste", <<126>>, <<ParseI32(SubSeq(t, i + 2, i + 4))>>)
    ELSE CommandEvent("Title", <<48>>, <<>>)

\* the text between the end of the previous match and position i
TextBefore(t, last_pos, i) ==
    IF i - 1 > last_pos THEN <<TextEvent(SubSeq(t, last_pos + 1, i - 1))>> ELSE <<>>

\* last_pos counts the characters consumed; the events before it are already
\* in `evs`; i is the position of the next match (0 for none) and m the match
RECURSIVE ParseFrom(_, _, _)
ParseMatch(t, last_pos, evs, i, m) ==
    ParseFrom(t, i + m.len - 1,
              evs \o TextBefore(t, last_pos, i) \o <<parse_escape_sequence(t, i, m)>>)

ParseAt(t, last_pos, evs, i) ==
    IF i = 0 THEN [events |-> evs, last_pos |-> last_pos]
    ELSE ParseMatch(t, last_pos, evs, i, MatchAt(t, i))

ParseFrom(t, last_pos, evs) == ParseAt(t, last_pos, evs, FindMatch(t, last_pos + 1))

parse_ansi_stream_with_position(text) == ParseFrom(text, 0, <<>>)


(***************************************************************************)
(* Palette::default and Palette::match_color_index (colors.rs).            *)
(***************************************************************************)
SystemColors ==
    <<<<0, 0, 0>>, <<128, 0, 0>>, <<0, 128, 0>>, <<128, 128, 0>>,
      <<0, 0, 128>>, <<128, 0, 128>>, <<0, 128, 128>>, <<192, 192, 192>>,
      <<128, 128, 128>>, <<255, 0, 0>>, <<0, 255, 0>>, <<255, 255, 0>>,
      <<0, 0, 255>>, <<255, 0, 255>>, <<0, 255, 255>>, <<255, 255, 255>>>>

CubeLevel(v) == IF v = 0 THEN 0 ELSE 55 + v * 40

\* the RGB triplet of palette index i in 0..255
PaletteDefault(i) ==
    IF i < 16 THEN SystemColors[i + 1]
    ELSE IF i < 232
    THEN <<CubeLevel((i - 16) \div 36), CubeLevel(((i - 16) \div 6) % 6), CubeLevel((i - 16) % 6)>>
    ELSE <<8 + (i - 232) * 10, 8 + (i - 232) * 10, 8 + (i - 232) * 10>>

\* the 8-bit limb k of the two's complement of a
Limb(a, k) == (a \div (256 ^ k)) % 256

\* the columns of the schoolbook product of the limbs, each with the carry
\* of the column before it
Column1(a, b, p0) == Limb(a, 0) * Limb(b, 1) + Limb(a, 1) * Limb(b, 0) + (p0 \div 256)

Column2(a, b, p1) ==
    Limb(a, 0) * Limb(b, 2) + Limb(a, 1) * Limb(b, 1) + Limb(a, 2) * Limb(b, 0) + (p1 \div 256)

Column3(a, b, p2) ==
    Limb(a, 0) * Limb(b, 3) + Limb(a, 1) * Limb(b, 2) + Limb(a, 2) * Limb(b, 1)
    + Limb(a, 3) * Limb(b, 0) + (p2 \div 256)

\* the i32 with the limbs l0..l3
FromLimbs(l0, l1, l2, l3) ==
    l0 + 256 * l1 + 65536 * l2 + 16777216 * (IF l3 >= 128 THEN l3 - 256 ELSE l3)

Mul3(a, b, p0, p1, p2) == FromLimbs(p0 % 256, p1 % 256, p2 % 256, Column3(a, b, p2) % 256)
Mul2(a, b, p0, p1) == Mul3(a, b, p0, p1, Column2(a, b, p1))
Mul1(a, b, p0) == Mul2(a, b, p0, Column1(a, b, p0))

\* a * b in i32, wrapping
WrappingMul(a, b) == Mul1(a, b, Limb(a, 0) * Limb(b, 0))

\* d * d leaves the i32 range (46340 * 46340 <= i32::MAX < 46341 * 46341)
SquareOverflows(d) == d > 46340 \/ d < -46340

Square(d) == WrappingMul(d, d)

\* dr + dg + db in i32, and whether the sum overflows
Sum3(dr, dg, db) == WrappingAdd(WrappingAdd(dr, dg), db)
Sum3Overflows(dr, dg, db) == AddOverflows(dr, dg) \/ AddOverflows(WrappingAdd(dr, dg), db)

\* color_distance of (r, g, b) to the palette entry m
DistanceTo(r, g, b, m) == Sum3(Square(r - m[1]), Square(g - m[2]), Square(b - m[3]))

DistanceToOverflows(r, g, b, m) ==
    \/ SquareOverflows(r - m[1]) \/ SquareOverflows(g - m[2]) \/ SquareOverflows(b - m[3])
    \/ Sum3Overflows(Square(r - m[1]), Square(g - m[2]), Square(b - m[3]))

ColorDistance(r, g, b, i) == DistanceTo(r, g, b, PaletteDefault(i))

ColorDistanceOverflows(r, g, b, i) == DistanceToOverflows(r, g, b, PaletteDefault(i))

\* if last_distance == -1 || color_distance < last_distance; acc is
\* <<last_distance, mapped_color>>
MatchPick(acc, color_distance, i) ==
    IF acc[1] = -1 \/ color_distance < acc[1] THEN <<color_distance, i>> ELSE acc

\* one iteration of the loop
MatchStep(r, g, b, i, acc) == MatchPick(acc, ColorDistance(r, g, b, i), i)

\* the iterations lo..hi in ascending order, halved to keep the evaluation
\* shallow; the index found in lo..mid is at most mid, and testing it
\* evaluates that half first
RECURSIVE MatchLoop(_, _, _, _, _, _)
MatchRight(r, g, b, mid, hi, left) ==
    IF left[2] <= mid THEN MatchLoop(r, g, b, mid + 1, hi, left) ELSE left

MatchHalves(r, g, b, lo, mid, hi, acc) ==
    MatchRight(r, g, b, mid, hi, MatchLoop(r, g, b, lo, mid, acc))

MatchLoop(r, g, b, lo, hi, acc) ==
    IF lo = hi THEN MatchStep(r, g, b, lo, acc)
    ELSE MatchHalves(r, g, b, lo, (lo + hi) \div 2, hi, acc)

match_color_index(r, g, b) == MatchLoop(r, g, b, 0, 255, <<-1, 0>>)[2]

match_color_overflows(r, g, b) ==
    \E i \in 0..255 : ColorDistanceOverflows(r, g, b, i)

(***************************************************************************)
(* TerminalEmulator (terminal/mod.rs).  display_alt_screen is TRUE for     *)
(* Some(true), FALSE for None.  main_saved and roundtrip_ok are history:   *)
(* the main (grid, state) pair when the alternate screen was entered, and  *)
(* whether every leave so far brought that pair back.                      *)
(***************************************************************************)
NoPair == [grid |-> <<>>, state |-> <<>>]

EmulatorNew(aw) ==
    [grid |-> GridNew(DefaultFg, DefaultBg),
     state |-> [StateNew EXCEPT !.autowrap = aw],
     alt_grid |-> GridNew(DefaultFg, DefaultBg),
     alt_state |-> [StateNew EXCEPT !.autowrap = aw],
     display_alt_screen |-> FALSE,
     extra_text |-> <<>>,
     main_saved |-> NoPair,
     roundtrip_ok |-> TRUE]

has_escape(text) == \E i \in 1..Len(text) : text[i] = ESC

alternate_screen_on(e) ==
    IF ~e.display_alt_screen
    THEN [e EXCEPT !.display_alt_screen = TRUE,
                   !.grid = e.alt_grid, !.alt_grid = e.grid,
                   !.state = e.alt_state, !.alt_state = e.state]
    ELSE e

\* a variant that swaps the grids back and keeps the alternate screen's state
alternate_screen_off_keeps_state(e) ==
    IF e.display_alt_screen
    THEN [e EXCEPT !.display_alt_screen = FALSE,
                   !.grid = e.alt_grid, !.alt_grid = e.grid]
    ELSE e

alternate_screen_off(e) ==
    IF e.display_alt_screen
    THEN [e EXCEPT !.display_alt_screen = FALSE,
                   !.grid = e.alt_grid, !.alt_grid = e.grid,
                   !.state = e.alt_state, !.alt_state = e.state]
    ELSE e

\* terminal_graphics.write(): the cell under the cursor
write(e, char_ord) ==
    LET fg == IF e.state.reverse_video THEN e.state.background ELSE e.state.foreground
        bg == IF e.state.reverse_video THEN e.state.foreground ELSE e.state.background
        \* char::from_u32 refuses the surrogates
        character == IF char_ord <= 65535 /\ ~(char_ord >= 55296 /\ char_ord <= 57343)
                     THEN char_ord ELSE SPACE
    IN  [e EXCEPT !.grid = write_cell(@, e.state.cursor_x, e.state.cursor_y,
                                      Cell(character, fg, bg))]

scroll_buffer(e) ==
    LET s == e.state
        amount == IF s.scroll < 0 THEN -s.scroll ELSE s.scroll
        g == IF s.scroll > 0
             THEN scroll_region_up(e.grid, s.scroll_top, s.scroll_bottom, amount,
                                   s.foreground, s.background)
             ELSE scroll_region_down(e.grid, s.scroll_top, s.scroll_bottom, amount,
                                     s.foreground, s.background)
    IN  [e EXCEPT !.grid = g,
                  !.state.scroll = 0,
                  !.state.overflow = @ \/ ScrollOverflows(s.scroll_top, s.scroll_bottom, amount)]

\* a character below 32: BS, FI, LF (mode "linux": followed by a carriage
\* return), CR; the others do nothing
RenderControl(e, character) ==
    IF character = BS THEN [e EXCEPT !.state = cursor_left(@, 1)]
    ELSE IF character = FI THEN [e EXCEPT !.state = cursor_right(@, 1)]
    ELSE IF character = LF
    THEN [e EXCEPT !.state = cursor_absolute_x(cursor_down(@, 1), 0)]
    ELSE IF character = CR THEN [e EXCEPT !.state = cursor_absolute_x(@, 0)]
    ELSE e

\* if self.state.pending_wrap { self.state.cursor_right(1) }
ResolvePendingWrap(e) ==
    IF e.state.pending_wrap THEN [e EXCEPT !.state = cursor_right(@, 1)] ELSE e

RenderPrintable(e, character) ==
    [write(ResolvePendingWrap(e), character) EXCEPT !.state = cursor_right(@, 1)]

\* while self.state.scroll != 0 { self.scroll_buffer() }
ApplyScroll(e) == IF e.state.scroll # 0 THEN scroll_buffer(e) ELSE e

RenderAfterScroll(e, character) ==
    IF character < 32 THEN RenderControl(e, character) ELSE RenderPrintable(e, character)

\* one iteration of the loop of cmd_render_text
RenderChar(e, character) == RenderAfterScroll(ApplyScroll(e), character)

RECURSIVE RenderLoop(_, _)
RenderLoop(e, data) ==
    IF data = <<>> THEN e ELSE RenderLoop(RenderChar(e, Head(data)), Tail(data))

cmd_render_text(e, data) ==
    [RenderLoop([e EXCEPT !.state.text_mode = TRUE], data) EXCEPT !.state.text_mode = FALSE]

process_single(e, command) ==
    IF command = <<55>> THEN [e EXCEPT !.state = cursor_save_position(@)]
    ELSE IF command = <<56>> THEN [e EXCEPT !.state = cursor_restore_position(@)]
    ELSE e

\* alternate_screen_on, with the history of the round trip
EnterAlternate(e) ==
    LET e1 == alternate_screen_on(e)
    IN  IF ~e.display_alt_screen
        THEN [e1 EXCEPT !.main_saved = [grid |-> e.grid, state |-> e.state]]
        ELSE e1

cmd_decset(e, code) ==
    IF code = 7 THEN [e EXCEPT !.state.autowrap = TRUE]
    ELSE IF code = 25 THEN [e EXCEPT !.state.display_cursor = TRUE]
    ELSE IF code = 1049 THEN EnterAlternate(e)
    ELSE e

\* alternate_screen_off, with the history of the round trip
LeaveAlternate(e) ==
    LET e1 == alternate_screen_off(e)
    IN  IF e.display_alt_screen
        THEN [e1 EXCEPT !.roundtrip_ok =
                 @ /\ e1.grid = e.main_saved.grid /\ e1.state = e.main_saved.state]
        ELSE e1

cmd_decrst(e, code) ==
    IF code = 7 THEN [e EXCEPT !.state.autowrap = FALSE]
    ELSE IF code = 25 THEN [e EXCEPT !.state.display_cursor = FALSE]
    ELSE IF code = 1049 THEN LeaveAlternate(e)
    ELSE e

\* TerminalEmulator::set_foreground / set_background (mod.rs lines 384-398)
set_foreground(s, color) ==
    [s EXCEPT !.foreground = IF color >= 256 THEN DefaultFg ELSE color]

set_background(s, color) ==
    [s EXCEPT !.background = IF color >= 256 THEN DefaultBg ELSE color]

cmd_set_mode(s, cmd) ==
    IF cmd = 0
    THEN [s EXCEPT !.foreground = DefaultFg, !.background = DefaultBg,
                   !.bold = FALSE, !.reverse_video = FALSE]
    ELSE IF cmd = 1 THEN [s EXCEPT !.bold = TRUE]
    ELSE IF cmd = 7 THEN [s EXCEPT !.reverse_video = TRUE]
    ELSE IF cmd = 22 THEN [s EXCEPT !.bold = FALSE]
    ELSE IF cmd = 27 THEN [s EXCEPT !.reverse_video = FALSE]
    ELSE IF cmd >= 30 /\ cmd <= 37
    THEN set_foreground(s, IF s.bold THEN cmd - 30 + 8 ELSE cmd - 30)
    ELSE IF cmd = 39 THEN [s EXCEPT !.foreground = DefaultFg]
    ELSE IF cmd >= 40 /\ cmd <= 47
    THEN set_background(s, IF s.bold THEN cmd - 40 + 8 ELSE cmd - 40)
    ELSE IF cmd = 49 THEN [s EXCEPT !.background = DefaultBg]
    ELSE IF cmd >= 90 /\ cmd <= 97 THEN set_foreground(s, cmd - 90 + 8)
    ELSE IF cmd >= 100 /\ cmd <= 107 THEN set_background(s, cmd - 100 + 8)
    ELSE s

cmd_reset_mode(s, cmd) ==
    IF cmd = 0
    THEN [s EXCEPT !.foreground = DefaultFg, !.background = DefaultBg,
                   !.bold = FALSE, !.reverse_video = FALSE]
    ELSE IF cmd = 1 THEN [s EXCEPT !.bold = FALSE]
    ELSE IF cmd = 7 THEN [s EXCEPT !.reverse_video = FALSE]
    ELSE s

RECURSIVE SetModes(_, _)
SetModes(s, params) ==
    IF params = <<>> THEN s ELSE SetModes(cmd_set_mode(s, Head(params)), Tail(params))

\* 38;2;r;g;b and 48;2;r;g;b with all five parameters: the nearest palette entry
IsRgb(params) == Len(params) > 1 /\ params[2] = 2 /\ Len(params) > 4

RgbOverflow(s, params) ==
    [s EXCEPT !.overflow = @ \/ match_color_overflows(params[3], params[4], params[5])]

\* 38;5;n and 48;5;n
IsIndexed(params) == Len(params) > 2 /\ params[2] = 5

ForegroundRgb(s, params) ==
    IF IsRgb(params)
    THEN RgbOverflow(set_foreground(s, match_color_index(params[3], params[4], params[5])),
                     params)
    ELSE s

BackgroundRgb(s, params) ==
    IF IsRgb(params)
    THEN RgbOverflow(set_background(s, match_color_index(params[3], params[4], params[5])),
                     params)
    ELSE s

ForegroundIndexed(s, params) ==
    IF IsIndexed(params) THEN set_foreground(s, params[3]) ELSE s

BackgroundIndexed(s, params) ==
    IF IsIndexed(params) THEN set_background(s, params[3]) ELSE s

cmd_process_colors(s, params) ==
    IF params = <<>> THEN s
    ELSE IF params[1] = 38 THEN ForegroundIndexed(ForegroundRgb(s, params), params)
    ELSE IF params[1] = 48 THEN BackgroundIndexed(BackgroundRgb(s, params), params)
    ELSE SetModes(s, params)

(***************************************************************************)
(* The erase and delete commands.  Their loops move the cursor with        *)
(* cursor_absolute_x / cursor_absolute (so check_bounds runs on every      *)
(* step) and write character 0 with the current colours.                   *)
(***************************************************************************)
\* for x in x..xend { cursor_absolute_x(x); write(0) }.  A step with
\* x >= width writes the cell at width - 1 again, so the steps after the
\* first such one change nothing and the loop is cut there.
RECURSIVE EraseColumns(_, _, _)
EraseColumns(e, x, xend) ==
    IF x >= xend \/ x > Width THEN e
    ELSE EraseColumns(write([e EXCEPT !.state = cursor_absolute_x(@, x)], 0), x + 1, xend)

\* for x in 0..width { cursor_absolute(x, y); write(0) }
RECURSIVE EraseRowAt(_, _, _)
EraseRowAt(e, x, y) ==
    IF x >= Width THEN e
    ELSE EraseRowAt(write([e EXCEPT !.state = cursor_absolute(@, x, y)], 0), x + 1, y)

\* for y in y..yend { for x in 0..width { ... } }
RECURSIVE EraseRows(_, _, _)
EraseRows(e, y, yend) ==
    IF y >= yend THEN e ELSE EraseRows(EraseRowAt(e, 0, y), y + 1, yend)

cmd_ed(e, mode) ==
    LET cp == <<e.state.cursor_x, e.state.cursor_y>>
    IN  IF mode = 1
        THEN LET e1 == EraseColumns(e, 0, e.state.cursor_x + 1)
                 e2 == EraseRows(e1, 0, e1.state.cursor_y - 1)
             IN  [e2 EXCEPT !.state = cursor_absolute(@, cp[1], cp[2])]
        ELSE IF mode = 0
        THEN LET e1 == EraseColumns(e, e.state.cursor_x, Width)
                 e2 == EraseRows(e1, e1.state.cursor_y + 1, Height)
             IN  [e2 EXCEPT !.state = cursor_absolute(@, cp[1], cp[2])]
        ELSE IF mode = 2
        THEN [e EXCEPT !.grid = GridClear(@, e.state.foreground, e.state.background)]
        ELSE e

cmd_el(e, mode) ==
    LET cp == <<e.state.cursor_x, e.state.cursor_y>>
        e1 == IF mode = 0 THEN EraseColumns(e, e.state.cursor_x, Width)
              ELSE IF mode = 1 THEN EraseColumns(e, 0, e.state.cursor_x + 1)
              ELSE IF mode = 2 THEN EraseColumns(e, 0, Width)
              ELSE e
    IN  [e1 EXCEPT !.state = cursor_absolute(@, cp[1], cp[2])]

\* for x2 in from..width: copy cell x2 to x2 - distance (ascending, the
\* source is to the right of the destination)
RECURSIVE DchCopy(_, _, _, _)
DchCopy(g, x2, y, distance) ==
    IF x2 >= Width THEN g
    ELSE DchCopy(IF y >= 0 /\ y < Height
                 THEN write_cell(g, x2 - distance, y, g[y * Width + x2])
                 ELSE g,
                 x2 + 1, y, distance)

\* for x2 in from..width: an empty cell at x2
RECURSIVE DchClear(_, _, _, _, _)
DchClear(g, x2, y, fg, bg) ==
    IF x2 >= Width THEN g
    ELSE DchClear(write_cell(g, x2, y, EmptyCell(fg, bg)), x2 + 1, y, fg, bg)

\* the steps with a negative x2 find no cell and write none
cmd_dch(e, distance) ==
    LET x == e.state.cursor_x
        y == e.state.cursor_y
        from == WrappingAdd(x, distance)
        g1 == DchCopy(e.grid, IF from < 0 THEN 0 ELSE from, y, distance)
        g2 == DchClear(g1, IF Width - distance < 0 THEN 0 ELSE Width - distance, y,
                       e.state.foreground, e.state.background)
    IN  [e EXCEPT !.grid = g2,
                  !.state.overflow = @ \/ AddOverflows(x, distance)]

cmd_ech(e, distance) ==
    LET cp == <<e.state.cursor_x, e.state.cursor_y>>
        e1 == EraseColumns(e, e.state.cursor_x, WrappingAdd(e.state.cursor_x, distance))
    IN  [e1 EXCEPT !.state = [cursor_absolute(@, cp[1], cp[2]) EXCEPT
                                !.overflow = @ \/ AddOverflows(cp[1], distance)]]

(***************************************************************************)
(* process_csi and process_command (mod.rs lines 209-299).                 *)
(***************************************************************************)
process_csi(e, command, params) ==
    LET value1 == IF Len(params) > 0 THEN params[1]
                  ELSE IF command = <<114>> THEN 1 ELSE 0
        value2 == IF Len(params) > 1 THEN params[2]
                  ELSE IF command = <<114>> THEN Height - 1 ELSE 0
        s == e.state
    IN  IF command = <<65>> THEN [e EXCEPT !.state = cursor_up(s, value1)]
        ELSE IF command = <<66>> THEN [e EXCEPT !.state = cursor_down(s, value1)]
        ELSE IF command = <<67>> THEN [e EXCEPT !.state = cursor_right(s, value1)]
        ELSE IF command = <<68>> THEN [e EXCEPT !.state = cursor_left(s, value1)]
        ELSE IF command = <<69>>
        THEN [e EXCEPT !.state = cursor_up(cursor_absolute_x(s, 0), value1)]
        ELSE IF command = <<70>>
        THEN [e EXCEPT !.state = cursor_up(cursor_absolute_x(s, 0), value1)]
        ELSE IF command = <<71>> THEN [e EXCEPT !.state = cursor_absolute_x(s, value1 - 1)]
        ELSE IF command = <<72>>
        THEN [e EXCEPT !.state = cursor_absolute(s, value2 - 1, value1 - 1)]
        ELSE IF command = <<74>> THEN cmd_ed(e, value1)
        ELSE IF command = <<75>> THEN cmd_el(e, value1)
        ELSE IF command = <<80>> THEN cmd_dch(e, value1)
        ELSE IF command = <<88>> THEN cmd_ech(e, value1)
        ELSE IF command = <<100>> THEN [e EXCEPT !.state = cursor_absolute(s, 0, value1 - 1)]
        ELSE IF command = <<96>> THEN [e EXCEPT !.state = cursor_absolute_x(s, value1 - 1)]
        ELSE IF command = <<102>>
        THEN [e EXCEPT !.state = cursor_absolute(s, value2 - 1, value1 - 1)]
        ELSE IF command = <<108>> THEN [e EXCEPT !.state = cmd_reset_mode(s, value1)]
        ELSE IF command = <<109>> THEN [e EXCEPT !.state = cmd_process_colors(s, params)]
        ELSE IF command = <<114>>
        THEN [e EXCEPT !.state = set_scroll_region(s, value1 - 1, value2 - 1)]
        ELSE IF command = <<115>> THEN [e EXCEPT !.state = cursor_save_position(s)]
        ELSE IF command = <<117>> THEN [e EXCEPT !.state = cursor_restore_position(s)]
        ELSE IF command = <<126>> THEN e
        ELSE IF command = <<63, 104>> THEN cmd_decset(e, value1)
        ELSE IF command = <<63, 108>> THEN cmd_decrst(e, value1)
        ELSE e

process_command(e, cmd) ==
    IF cmd.esc_type = "Single" THEN process_single(e, cmd.command)
    ELSE IF cmd.esc_type = "Csi" THEN process_csi(e, cmd.command, cmd.params)
    ELSE e

(***************************************************************************)
(* feed_bytes (mod.rs lines 54-85).                                        *)
(***************************************************************************)
RECURSIVE ProcessEvents(_, _)
ProcessEvents(e, evs) ==
    IF evs = <<>> THEN e
    ELSE ProcessEvents(IF Head(evs).type = "Text"
                       THEN cmd_render_text(e, Head(evs).chars)
                       ELSE process_command(e, Head(evs)),
                       Tail(evs))

\* the text after the last parsed sequence: carried over when it holds an
\* ESC, rendered otherwise
FeedRemaining(e, remaining) ==
    IF has_escape(remaining)
    THEN [e EXCEPT !.extra_text = remaining]
    ELSE IF remaining # <<>>
    THEN cmd_render_text([e EXCEPT !.extra_text = <<>>], remaining)
    ELSE [e EXCEPT !.extra_text = <<>>]

FeedParsed(e, full_text, parsed) ==
    FeedRemaining(ProcessEvents(e, parsed.events),
                  SubSeq(full_text, parsed.last_pos + 1, Len(full_text)))

FeedText(e, full_text) ==
    FeedParsed(e, full_text, parse_ansi_stream_with_position(full_text))

feed_bytes(e, bytes) == FeedText(e, e.extra_text \o from_utf8_lossy(bytes))

\* an i32 or usize operation overflowed on either screen
Overflowed(e) == e.state.overflow \/ e.alt_state.overflow


(***************************************************************************)
(* GifEncoder (encoder/gif_encoder.rs).  A canvas is one palette index per *)
(* pixel, row-major.                                                       *)
(***************************************************************************)
Pixels == 0..(GifW * GifH - 1)
Colors == {1, 9}
Canvases == [Pixels -> Colors]

NoFrame == <<>>
NoColor == <<>>

\* the RGB entries of the palette given to GifEncoder::new
GlobalPalette(i) == PaletteDefault(i)

SetMin(S) == CHOOSE a \in S : \A b \in S : a <= b
SetMax(S) == CHOOSE a \in S : \A b \in S : a >= b

\* unique_colors after sort_unstable
RECURSIVE SortedSeq(_)
SortedSeq(S) == IF S = {} THEN <<>> ELSE <<SetMin(S)>> \o SortedSeq(S \ {SetMin(S)})

\* index_map[global_idx]: the position, from 0, in unique_colors
IndexMap(unique_colors, global_idx) ==
    (CHOOSE k \in 1..Len(unique_colors) : unique_colors[k] = global_idx) - 1

\* a variant whose palette is in descending order of global index
create_local_palette_descending(frame_data) ==
    LET unique_colors == SortedSeq({frame_data[k] : k \in 1..Len(frame_data)})
        n == Len(unique_colors)
    IN  [local_palette |-> [k \in 1..n |-> GlobalPalette(unique_colors[n + 1 - k])],
         remapped_data |-> [k \in 1..Len(frame_data) |->
                               n - 1 - IndexMap(unique_colors, frame_data[k])]]

create_local_palette(frame_data) ==
    LET unique_colors == SortedSeq({frame_data[k] : k \in 1..Len(frame_data)})
    IN  [local_palette |-> [k \in 1..Len(unique_colors) |-> GlobalPalette(unique_colors[k])],
         remapped_data |-> [k \in 1..Len(frame_data) |->
                               IndexMap(unique_colors, frame_data[k])]]

\* a variant that always emits whole rows of the canvas
compute_diff_whole_rows(prev, curr) ==
    LET changed == {i \in Pixels : prev[i] # curr[i]}
    IN  IF changed = {}
        THEN [left |-> 0, top |-> 0, width |-> 1, height |-> 1, frame_data |-> <<curr[0]>>]
        ELSE
            LET min_y == SetMin({i \div GifW : i \in changed})
                max_y == SetMax({i \div GifW : i \in changed})
                diff_height == max_y - min_y + 1
            IN  [left |-> 0, top |-> min_y, width |-> GifW, height |-> diff_height,
                 frame_data |-> [k \in 1..(GifW * diff_height) |-> curr[min_y * GifW + k - 1]]]

\* a variant that copies the previous canvas into the changed region
compute_diff_of_prev(prev, curr) ==
    LET changed == {i \in Pixels : prev[i] # curr[i]}
    IN  IF changed = {}
        THEN [left |-> 0, top |-> 0, width |-> 1, height |-> 1, frame_data |-> <<prev[0]>>]
        ELSE
            LET min_x == SetMin({i % GifW : i \in changed})
                max_x == SetMax({i % GifW : i \in changed})
                min_y == SetMin({i \div GifW : i \in changed})
                max_y == SetMax({i \div GifW : i \in changed})
                diff_width == max_x - min_x + 1
                diff_height == max_y - min_y + 1
            IN  [left |-> min_x, top |-> min_y, width |-> diff_width, height |-> diff_height,
                 frame_data |-> [k \in 1..(diff_width * diff_height) |->
                     prev[(min_y + (k - 1) \div diff_width) * GifW
                          + min_x + ((k - 1) % diff_width)]]]

compute_diff(prev, curr) ==
    LET changed == {i \in Pixels : prev[i] # curr[i]}
    IN  IF changed = {}
        THEN [left |-> 0, top |-> 0, width |-> 1, height |-> 1, frame_data |-> <<curr[0]>>]
        ELSE
            LET min_x == SetMin({i % GifW : i \in changed})
                max_x == SetMax({i % GifW : i \in changed})
                min_y == SetMin({i \div GifW : i \in changed})
                max_y == SetMax({i \div GifW : i \in changed})
                diff_width == max_x - min_x + 1
                diff_height == max_y - min_y + 1
            IN  [left |-> min_x, top |-> min_y, width |-> diff_width, height |-> diff_height,
                 frame_data |-> [k \in 1..(diff_width * diff_height) |->
                     curr[(min_y + (k - 1) \div diff_width) * GifW
                          + min_x + ((k - 1) % diff_width)]]]

\* a variant that encodes the whole canvas every time
add_frame_whole_canvas(prev, data) ==
    LET lp == create_local_palette([k \in 1..(GifW * GifH) |-> data[k - 1]])
    IN  [left |-> 0, top |-> 0, width |-> GifW, height |-> GifH,
         palette |-> lp.local_palette, buffer |-> lp.remapped_data]

\* the Frame add_frame builds for canvas data `data`; transparent is None
\* (main.rs line 689) and the disposal method is Keep
add_frame(prev, data) ==
    LET d == IF prev # NoFrame THEN compute_diff(prev, data)
             ELSE [left |-> 0, top |-> 0, width |-> GifW, height |-> GifH,
                   frame_data |-> [k \in 1..(GifW * GifH) |-> data[k - 1]]]
        lp == create_local_palette(d.frame_data)
    IN  [left |-> d.left, top |-> d.top, width |-> d.width, height |-> d.height,
         palette |-> lp.local_palette, buffer |-> lp.remapped_data]

\* a GIF viewer painting frame f over the picture c and keeping the rest
Paint(c, f) ==
    [i \in Pixels |->
        LET x == i % GifW
            y == i \div GifW
        IN  IF x >= f.left /\ x < f.left + f.width /\ y >= f.top /\ y < f.top + f.height
            THEN f.palette[f.buffer[(y - f.top) * f.width + (x - f.left) + 1] + 1]
            ELSE c[i]]

(***************************************************************************)
(* convert_recording (main.rs): loading, preprocessing and the frame loop. *)
(* Timestamps are f64 seconds; the model counts them in ticks of a quarter *)
(* second, which f64 represents exactly, as are their halves and sums.     *)
(***************************************************************************)
TicksPerSecond == 4

\* AsciicastReader::new: one Event per line
LoadEvent(line) ==
    [timestamp |-> line.time,
     event_type |-> IF line.kind = "o" THEN "Output"
                    ELSE IF line.kind = "i" THEN "Input"
                    ELSE "Output",
     data |-> line.data]

read_events(ls) == [i \in 1..Len(ls) |-> LoadEvent(ls[i])]

RECURSIVE GapLoop(_, _, _, _)
GapLoop(evs, i, prev_time, gap_offset) ==
    IF i > Len(evs) THEN evs
    ELSE LET gap == evs[i].timestamp - prev_time
             off == IF gap > TicksPerSecond
                    THEN gap_offset + (gap - TicksPerSecond) ELSE gap_offset
             ts == evs[i].timestamp - off
         IN  GapLoop([evs EXCEPT ![i].timestamp = ts], i + 1, ts, off)

remove_gaps(evs) == IF evs = <<>> THEN evs ELSE GapLoop(evs, 1, 0, 0)

\* event.timestamp /= args.speed, when speed is not 1.0
ApplySpeed(evs, speed) ==
    IF speed # 1
    THEN [i \in 1..Len(evs) |-> [evs[i] EXCEPT !.timestamp = @ \div speed]]
    ELSE evs

\* args.fps.clamp(1, 100)
ClampFps(fps) == IF fps < 1 THEN 1 ELSE IF fps > 100 THEN 100 ELSE fps

\* a variant that rounds the product down
FrameCountFloor(duration, rate) ==
    LET ticks == duration * rate
        floor == IF ticks <= 0 THEN 0 ELSE ticks \div TicksPerSecond
    IN  IF floor < 1 THEN 1 ELSE floor

\* ((duration * frame_rate).ceil() as usize).max(1); a negative f64 casts to 0
FrameCount(duration, rate) ==
    LET ticks == duration * rate
        ceil == IF ticks <= 0 THEN 0 ELSE (ticks + TicksPerSecond - 1) \div TicksPerSecond
    IN  IF ceil < 1 THEN 1 ELSE ceil

\* (frame_rate * 1.5).round() as usize: halves round away from zero
TrailerFrameCount(trailer, rate) == IF trailer THEN (3 * rate + 1) \div 2 ELSE 0

\* events[event_idx].timestamp <= frame_num * (1.0 / frame_rate)
Due(evs, idx, num, rate) == evs[idx + 1].timestamp * rate <= num * TicksPerSecond

\* the while loop of one frame: [emu, event_idx, fed] when it ends
RECURSIVE FeedDue(_, _, _, _, _, _)
FeedDue(e, evs, idx, log, num, rate) ==
    IF idx < Len(evs) /\ Due(evs, idx, num, rate)
    THEN FeedDue(feed_bytes(e, evs[idx + 1].data), evs, idx + 1, Append(log, idx + 1),
                 num, rate)
    ELSE [emu |-> e, event_idx |-> idx, fed |-> log]

DrvIdle ==
    /\ file_lines = <<>>
    /\ events = <<>>
    /\ args = [speed |-> 1, no_gaps |-> FALSE, fps |-> 1, trailer |-> FALSE]
    /\ pc = "idle"
    /\ frame_rate = 0 /\ frame_count = 0 /\ total_frame_count = 0
    /\ frame_num = 0 /\ event_idx = 0
    /\ fed = <<>>

GifInit ==
    /\ previous_frame = NoFrame
    /\ older_frame = NoFrame
    /\ frame = NoFrame
    /\ composite = [i \in Pixels |-> NoColor]
    /\ nframes = 0

EmuIdle ==
    /\ auto_wrap = TRUE
    /\ emu = EmulatorNew(auto_wrap)
    /\ profile = "release"
    /\ panicked = FALSE
    /\ nfeeds = 0
    /\ input = <<>>
    /\ pos = 0

(***************************************************************************)
(* Byte strings fed to the emulator.                                       *)
(***************************************************************************)
\* the ASCII decimal digits of n >= 0
RECURSIVE Dec(_)
Dec(n) == IF n < 10 THEN <<48 + n>> ELSE Dec(n \div 10) \o <<48 + (n % 10)>>

\* ESC [ params final
Csi(params, final) == <<ESC, 91>> \o params \o <<final>>

Chunk1049h == Csi(<<63>> \o Dec(1049), 104)
Chunk1049l == Csi(<<63>> \o Dec(1049), 108)

\* the chunks of the specification Spec: text, line feed, scroll regions
\* (valid, top 0, bottom beyond the screen), cursor motion, save and
\* restore, SGR, alternate screen
Chunks ==
    { <<97>>, <<98>>, <<LF>>,
      Csi(<<49, 59, 50>>, 114), Csi(<<48>>, 114), Csi(<<49, 59, 57, 57>>, 114),
      Csi(<<>>, 65), Csi(<<57, 57>>, 66), Csi(<<>>, 72),
      <<ESC, 55>>, <<ESC, 56>>,
      Csi(<<51, 49>>, 109),
      Chunk1049h, Chunk1049l }

(***************************************************************************)
(* The specification Spec: feed_bytes called with any of Chunks, at most   *)
(* MaxFeeds times, on a fresh emulator.                                    *)
(***************************************************************************)
\* one call of feed_bytes; a build with overflow checks panics where the
\* release build wraps
FeedResult(r) ==
    IF profile = "debug" /\ Overflowed(r)
    THEN panicked' = TRUE /\ emu' = emu
    ELSE panicked' = panicked /\ emu' = r

FeedStep(bytes) ==
    /\ ~panicked
    /\ FeedResult(feed_bytes(emu, bytes))
    /\ nfeeds' = nfeeds + 1

Init ==
    /\ auto_wrap \in BOOLEAN
    /\ emu = EmulatorNew(auto_wrap)
    /\ profile = "release"
    /\ panicked = FALSE
    /\ nfeeds = 0
    /\ input = <<>>
    /\ pos = 0
    /\ GifInit
    /\ DrvIdle

Feed ==
    /\ nfeeds < MaxFeeds
    /\ \E c \in Chunks : FeedStep(c)
    /\ UNCHANGED <<auto_wrap, profile, input, pos>>
    /\ UNCHANGED <<gifVars, drvVars>>

Next == Feed

Spec == Init /\ [][Next]_vars

(***************************************************************************)
(* One byte stream fed in pieces: the caller of feed_bytes cuts the        *)
(* stream wherever the read buffer ends.                                   *)
(***************************************************************************)
\* Width + 2 printable characters, "abc..."
TextStream == [i \in 1..(Width + 2) |-> 96 + i]

Streams ==
    { TextStream,
      <<120>> \o Csi(<<51, 49>>, 109) \o <<121>>,
      <<97, 195, 169, 98>>,
      <<194, 157, 116, BEL, 122>>,
      <<ESC, 93, 116, BEL, 122>>,
      Csi(<<50, 59, 50>>, 72) \o <<113>>,
      <<97, LF>> \o Csi(<<>>, 75) \o <<98>> }

InitSplit ==
    /\ auto_wrap \in BOOLEAN
    /\ emu = EmulatorNew(auto_wrap)
    /\ profile = "release"
    /\ panicked = FALSE
    /\ nfeeds = 0
    /\ input \in Streams
    /\ pos = 0
    /\ GifInit
    /\ DrvIdle

\* the next n bytes of the stream go through feed_bytes
FeedNext ==
    /\ nfeeds < MaxFeeds
    /\ \E n \in 1..(Len(input) - pos) :
          /\ FeedStep(SubSeq(input, pos + 1, pos + n))
          /\ pos' = pos + n
    /\ UNCHANGED <<auto_wrap, profile, input>>
    /\ UNCHANGED <<gifVars, drvVars>>

NextSplit == FeedNext

SpecSplit == InitSplit /\ [][NextSplit]_vars

(***************************************************************************)
(* A sequence of canvases handed to add_frame.                             *)
(***************************************************************************)
InitGif == EmuIdle /\ GifInit /\ DrvIdle

AddFrame ==
    /\ nframes < MaxFrames
    /\ \E canvas \in Canvases :
          LET f == add_frame(previous_frame, canvas)
          IN  /\ frame' = f
              /\ previous_frame' = canvas
              /\ older_frame' = previous_frame
              /\ composite' = Paint(composite, f)
    /\ nframes' = nframes + 1
    /\ UNCHANGED <<emuVars, drvVars>>

NextGif == AddFrame

SpecGif == InitGif /\ [][NextGif]_vars

(***************************************************************************)
(* One run of convert_recording on an asciicast file.                      *)
(***************************************************************************)
Kinds == {"o", "i", "r"}
Speeds == {1, 2}
FpsArgs == {0, 2}

\* timestamps of whole and half seconds
Times(max) == {2 * k : k \in 0..max}

\* the files of n lines; line i carries the one letter Chr(96 + i)
LineLists(n, max, kinds) ==
    {[i \in 1..n |-> [time |-> t[i], kind |-> k[i], data |-> <<96 + i>>]] :
        t \in [1..n -> Times(max)], k \in [1..n -> kinds]}

Files == UNION {LineLists(n, MaxTime, Kinds) : n \in 0..MaxEvents}

InitDriver ==
    /\ EmuIdle /\ GifInit
    /\ file_lines \in Files
    /\ events = <<>>
    /\ args \in [speed : Speeds, no_gaps : BOOLEAN, fps : FpsArgs, trailer : BOOLEAN]
    /\ pc = "load"
    /\ frame_rate = 0 /\ frame_count = 0 /\ total_frame_count = 0
    /\ frame_num = 0 /\ event_idx = 0
    /\ fed = <<>>

\* input_source.read_events() (main.rs line 495)
Load ==
    /\ pc = "load"
    /\ events' = read_events(file_lines)
    /\ pc' = "preprocess"
    /\ UNCHANGED <<file_lines, args, frame_rate, frame_count, total_frame_count,
                   frame_num, event_idx, fed>>
    /\ UNCHANGED <<emuVars, gifVars>>

\* main.rs lines 522-545
Preprocess ==
    /\ pc = "preprocess"
    /\ LET e1 == ApplySpeed(events, args.speed)
           e2 == IF args.no_gaps THEN remove_gaps(e1) ELSE e1
           duration == IF e2 # <<>> THEN e2[Len(e2)].timestamp ELSE 0
           rate == ClampFps(args.fps)
       IN  /\ events' = e2
           /\ frame_rate' = rate
           /\ frame_count' = FrameCount(duration, rate)
           /\ total_frame_count' = FrameCount(duration, rate)
                                      + TrailerFrameCount(args.trailer, rate)
    /\ pc' = "frames"
    /\ UNCHANGED <<file_lines, args, frame_num, event_idx, fed>>
    /\ UNCHANGED <<emuVars, gifVars>>

\* one iteration of `for frame_num in 0..total_frame_count` (main.rs lines
\* 768-783 and 841); the pixels of the canvas depend on the rasteriser, so
\* only the call of add_frame is counted here
Frame ==
    /\ pc = "frames"
    /\ frame_num < total_frame_count
    /\ LET r == IF frame_num < frame_count
                THEN FeedDue(emu, events, event_idx, fed, frame_num, frame_rate)
                ELSE [emu |-> emu, event_idx |-> event_idx, fed |-> fed]
       IN  /\ emu' = r.emu
           /\ event_idx' = r.event_idx
           /\ fed' = r.fed
           /\ nfeeds' = nfeeds + (r.event_idx - event_idx)
    /\ frame_num' = frame_num + 1
    /\ UNCHANGED <<file_lines, events, args, pc, frame_rate, frame_count, total_frame_count>>
    /\ nframes' = nframes + 1
    /\ UNCHANGED <<auto_wrap, profile, panicked, input, pos>>
    /\ UNCHANGED <<previous_frame, older_frame, frame, composite>>

NextDriver == Load \/ Preprocess \/ Frame

SpecDriver == InitDriver /\ [][NextDriver]_vars

(***************************************************************************)
(* A run with a frame rate in the documented range.                        *)
(***************************************************************************)
FrameRates == {1, 2, 3}

InitFrames ==
    /\ EmuIdle /\ GifInit
    /\ file_lines \in UNION {LineLists(n, MaxTime, {"o"}) : n \in 0..MaxEvents}
    /\ events = <<>>
    /\ args \in [speed : Speeds, no_gaps : BOOLEAN, fps : FrameRates, trailer : BOOLEAN]
    /\ pc = "load"
    /\ frame_rate = 0 /\ frame_count = 0 /\ total_frame_count = 0
    /\ frame_num = 0 /\ event_idx = 0
    /\ fed = <<>>

SpecFrames == InitFrames /\ [][NextDriver]_vars

(***************************************************************************)
(* A run on a file whose timestamps do not decrease, with --no-gaps.       *)
(***************************************************************************)
NonDecreasing(ls) == \A k \in 1..(Len(ls) - 1) : ls[k].time <= ls[k + 1].time

SortedFiles ==
    {ls \in UNION {LineLists(n, GapMaxTime, {"o"}) : n \in 0..MaxEvents} : NonDecreasing(ls)}

InitGaps ==
    /\ EmuIdle /\ GifInit
    /\ file_lines \in SortedFiles
    /\ events = <<>>
    /\ args \in [speed : {1}, no_gaps : {TRUE}, fps : FpsArgs, trailer : BOOLEAN]
    /\ pc = "load"
    /\ frame_rate = 0 /\ frame_count = 0 /\ total_frame_count = 0
    /\ frame_num = 0 /\ event_idx = 0
    /\ fed = <<>>

SpecGaps == InitGaps /\ [][NextDriver]_vars

(***************************************************************************)
(* Feeds with parameters near the ends of the i32 range, in a build with   *)
(* overflow checks ("debug") and in one without ("release").               *)
(***************************************************************************)
BigChunks ==
    { <<97>>, <<LF>>,
      Csi(Dec(I32Max), 66),
      Csi(<<51, 56, 59, 50, 59>> \o Dec(100000) \o <<59, 48, 59, 48>>, 109),
      Csi(Dec(I32Max), 80),
      Csi(<<>>, 65) }

InitOverflow ==
    /\ auto_wrap = TRUE
    /\ emu = EmulatorNew(auto_wrap)
    /\ profile \in {"debug", "release"}
    /\ panicked = FALSE
    /\ nfeeds = 0
    /\ input = <<>>
    /\ pos = 0
    /\ GifInit
    /\ DrvIdle

FeedBig ==
    /\ nfeeds < MaxFeeds
    /\ \E c \in BigChunks : FeedStep(c)
    /\ UNCHANGED <<auto_wrap, profile, input, pos>>
    /\ UNCHANGED <<gifVars, drvVars>>

NextOverflow == FeedBig

SpecOverflow == InitOverflow /\ [][NextOverflow]_vars

(***************************************************************************)
(* Feeds of single CSI commands: scroll regions with missing parameters,   *)
(* SGR, clear and home, and sequences the dispatch does not name.  The     *)
(* variable input holds the bytes of the last feed_bytes call.             *)
(***************************************************************************)
CsiR == Csi(<<>>, 114)
CsiRTop == Csi(<<50>>, 114)
ClearHome == Csi(<<50>>, 74) \o Csi(<<>>, 72)
\* CSI l, CSI 0 l, CSI z, ESC c
IgnoredChunks == { Csi(<<>>, 108), Csi(<<48>>, 108), Csi(<<>>, 122), <<ESC, 99>> }

CsiChunks ==
    { <<97>>, <<LF>>, CsiR, CsiRTop, Csi(<<51, 59, 49>>, 114),
      Csi(<<51, 49>>, 109), Csi(<<55>>, 109), ClearHome } \cup IgnoredChunks

FeedCsi ==
    /\ nfeeds < MaxFeeds
    /\ \E c \in CsiChunks : FeedStep(c) /\ input' = c
    /\ UNCHANGED <<auto_wrap, profile, pos>>
    /\ UNCHANGED <<gifVars, drvVars>>

NextCsi == FeedCsi

SpecCsi == Init /\ [][NextCsi]_vars

(***************************************************************************)
(* Feeds drawn from a given set of chunks; the variable input holds the    *)
(* bytes of the last feed_bytes call.                                      *)
(***************************************************************************)
FeedFrom(chunks) ==
    /\ nfeeds < MaxFeeds
    /\ \E c \in chunks : FeedStep(c) /\ input' = c
    /\ UNCHANGED <<auto_wrap, profile, pos>>
    /\ UNCHANGED <<gifVars, drvVars>>

\* CSI sequences with missing and empty parameters
ParamChunks ==
    { <<97>>, <<LF>>,
      Csi(<<>>, 72), Csi(<<59, 53>>, 72), Csi(<<50, 59, 50>>, 72),
      Csi(<<>>, 74), Csi(<<>>, 75), Csi(<<>>, 109),
      Csi(<<>>, 65), Csi(<<>>, 66), Csi(<<>>, 67), Csi(<<>>, 68),
      Csi(<<63, 50, 53>>, 108), Csi(<<59, 49, 48>>, 114) }

NextParams == FeedFrom(ParamChunks)

SpecParams == Init /\ [][NextParams]_vars

\* SGR sequences: single attributes, indexed colours, and lists that mix them
SgrLists ==
    { <<0>>, <<1>>, <<22>>, <<7>>, <<27>>, <<31>>, <<44>>, <<91>>, <<102>>, <<39>>,
      <<38, 5, 9>>, <<48, 5, 300>>, <<1, 38, 5, 9>> }

\* the decimal items joined by ';'
RECURSIVE JoinSemi(_)
JoinSemi(ps) ==
    IF Len(ps) = 1 THEN Dec(ps[1]) ELSE Dec(ps[1]) \o <<59>> \o JoinSemi(Tail(ps))

SgrChunk(ps) == Csi(JoinSemi(ps), 109)

SgrChunks == {SgrChunk(ps) : ps \in SgrLists} \cup {<<97>>}

NextSgr == FeedFrom(SgrChunks)

SpecSgr == Init /\ [][NextSgr]_vars

\* text, cursor motion, a colour, a scroll region below row 0, and the erase
\* and delete commands J, K, X and P
EraseChunks ==
    { <<97>>, <<98>>, <<LF>>, Csi(<<>>, 65), Csi(<<>>, 67),
      Csi(<<51, 49>>, 109), Csi(<<50, 59, 51>>, 114),
      Csi(<<48>>, 74), Csi(<<49>>, 74), Csi(<<50>>, 74),
      Csi(<<48>>, 75), Csi(<<49>>, 75), Csi(<<50>>, 75),
      Csi(<<50>>, 88), Csi(<<49>>, 80), Csi(<<50>>, 80) }

NextErase == FeedFrom(EraseChunks)

SpecErase == Init /\ [][NextErase]_vars

\* text that fills a row (aaa), two printable characters in one call (cd),
\* line feed, cursor save and restore, autowrap off and on, a region of the
\* two upper rows
CursorRestores == { <<ESC, 56>>, Csi(<<>>, 117) }

WrapChunks ==
    { <<97>>, <<97, 97, 97>>, <<99, 100>>, <<LF>>,
      <<ESC, 55>>, Csi(<<>>, 115),
      Csi(<<63, 55>>, 108), Csi(<<63, 55>>, 104),
      Csi(<<49, 59, 50>>, 114) } \cup CursorRestores

NextWrap == FeedFrom(WrapChunks)

SpecWrap == Init /\ [][NextWrap]_vars

\* an ESC that starts no sequence (ESC !), text, and the pieces of CSI and
\* OSC sequences cut at every byte
CarryChunks ==
    { <<ESC, 33>>, <<97>>, <<ESC>>, <<91>>, <<50>>, <<72>>,
      <<ESC, 93>>, <<BEL>>, <<LF>> }

NextCarry == FeedFrom(CarryChunks)

SpecCarry == Init /\ [][NextCarry]_vars

(***************************************************************************)
(* Properties of the emulator, checked under Spec.                         *)
(***************************************************************************)
BlankGrid == GridNew(DefaultFg, DefaultBg)

\* C2: after every feed_bytes call the active cursor is inside the grid:
\* 0 <= cursor_x < Width and 0 <= cursor_y < Height.
C2_CursorInBounds ==
    /\ 0 <= emu.state.cursor_x /\ emu.state.cursor_x < Width
    /\ 0 <= emu.state.cursor_y /\ emu.state.cursor_y < Height

\* C3: every completed enter/leave of the alternate screen has given back the
\* main grid and the main state exactly as they were at the enter; a set 1049
\* on the alternate screen and a reset 1049 on the main screen change nothing.
C3_AltScreenRoundTrip ==
    /\ emu.roundtrip_ok
    /\ (emu.display_alt_screen /\ emu.extra_text = <<>>)
           => feed_bytes(emu, Chunk1049h) = emu
    /\ (~emu.display_alt_screen /\ emu.extra_text = <<>>)
           => feed_bytes(emu, Chunk1049l) = emu

\* a round trip is over, the main screen held text and the alternate screen
\* was written to in between
C3_Witness ==
    /\ ~emu.display_alt_screen
    /\ emu.main_saved # NoPair
    /\ emu.grid # BlankGrid
    /\ emu.alt_grid # BlankGrid
    /\ emu.alt_state.cursor_x # emu.state.cursor_x

\* the region [scroll_top, scroll_bottom] is a valid one, the cursor is on its
\* bottom row and nothing is pending
AtRegionBottom(e) ==
    /\ e.extra_text = <<>>
    /\ 0 <= e.state.scroll_top /\ e.state.scroll_top <= e.state.scroll_bottom
    /\ e.state.scroll_bottom < Height
    /\ e.state.cursor_y = e.state.scroll_bottom
    /\ e.state.scroll = 0

IsBlankRow(row) == \A x \in DOMAIN row : row[x].ch = SPACE

\* C5: with the cursor on the bottom row of the scroll region, an LF leaves the
\* cursor on that row, shifts the rows of the region up by one (the bottom row
\* becomes blank) and leaves every row outside the region unchanged.
C5_ScrollRegionLineFeed ==
    LET s == emu.state
        r == feed_bytes(emu, <<LF>>)
    IN  AtRegionBottom(emu) =>
          /\ r.state.cursor_y = s.scroll_bottom
          /\ \A y \in 0..(Height - 1) :
                IF y < s.scroll_top \/ y > s.scroll_bottom
                THEN Row(r.grid, y) = Row(emu.grid, y)
                ELSE IF y < s.scroll_bottom
                THEN Row(r.grid, y) = Row(emu.grid, y + 1)
                ELSE IsBlankRow(Row(r.grid, y))

(***************************************************************************)
(* Properties of a stream fed in pieces, checked under SpecSplit.          *)
(***************************************************************************)
CellAt(g, x, y) == g[y * Width + x]

\* C1: a fresh emulator fed B1 and then B2 ends with the same grid and the
\* same cursor as a fresh emulator of the same size fed B1 ++ B2 in one call.
C1_ChunkInvariance ==
    (pos = Len(input) /\ nfeeds = 2) =>
        LET whole == feed_bytes(EmulatorNew(auto_wrap), input)
        IN  /\ emu.grid = whole.grid
            /\ emu.state.cursor_x = whole.state.cursor_x
            /\ emu.state.cursor_y = whole.state.cursor_y

\* C4: with autowrap on and at least two rows, after exactly Width printable
\* characters the Width-th one is at (Width-1, 0) and the cursor is on row 0
\* with pending wrap set; the next printable character lands at (0, 1).
C4_Autowrap ==
    (input = TextStream /\ auto_wrap /\ Height >= 2) =>
        /\ pos = Width =>
              /\ CellAt(emu.grid, Width - 1, 0).ch = TextStream[Width]
              /\ emu.state.cursor_y = 0
              /\ emu.state.cursor_x = Width - 1
              /\ emu.state.pending_wrap
        /\ pos = Width + 1 =>
              /\ CellAt(emu.grid, 0, 1).ch = TextStream[Width + 1]
              /\ CellAt(emu.grid, Width - 1, 0).ch = TextStream[Width]

\* the stream was cut after the Width-th character and the next one has been fed
C4_Witness ==
    /\ input = TextStream /\ auto_wrap /\ Height >= 2
    /\ pos = Width + 1 /\ nfeeds = 2
    /\ CellAt(emu.grid, 0, 1).ch = TextStream[Width + 1]

(***************************************************************************)
(* Properties of the encoder, checked under SpecGif.                       *)
(***************************************************************************)
\* C6: after every add_frame, the frames painted in order over one another
\* with Keep disposal show, at every pixel, the colour of the canvas just added.
C6_DiffLossless ==
    nframes > 0 => \A i \in Pixels : composite[i] = GlobalPalette(previous_frame[i])

\* a third frame that is a proper sub-rectangle with a single colour
C6_Witness ==
    /\ nframes = 3
    /\ frame.width * frame.height < GifW * GifH
    /\ frame.width * frame.height > 1
    /\ Len(frame.palette) = 1
    /\ \E i, j \in Pixels : previous_frame[i] # previous_frame[j]

(***************************************************************************)
(* Properties of the frame loop, checked under SpecDriver.                 *)
(***************************************************************************)
\* C7: the events are fed in ascending order of their (preprocessed)
\* timestamps, and events with equal timestamps in input order.
C7_FedInTimestampOrder ==
    \A k \in 1..(Len(fed) - 1) :
        /\ events[fed[k]].timestamp <= events[fed[k + 1]].timestamp
        /\ events[fed[k]].timestamp = events[fed[k + 1]].timestamp => fed[k] < fed[k + 1]

\* C8: only the data of "o" lines is fed to the emulator.
C8_OnlyOutputFed ==
    \A k \in 1..Len(fed) : file_lines[fed[k]].kind = "o"

(***************************************************************************)
(* Properties of gap removal, checked under SpecGaps.                      *)
(***************************************************************************)
\* C9: after remove_gaps every gap between adjacent events that was longer
\* than one second is exactly one second, every other gap is unchanged, and
\* the timestamps are non-decreasing and non-negative.
C9_GapRemoval ==
    pc = "frames" =>
        /\ \A k \in 1..Len(events) : events[k].timestamp >= 0
        /\ \A k \in 1..(Len(events) - 1) :
              /\ events[k].timestamp <= events[k + 1].timestamp
              /\ events[k + 1].timestamp - events[k].timestamp =
                    IF file_lines[k + 1].time - file_lines[k].time > TicksPerSecond
                    THEN TicksPerSecond
                    ELSE file_lines[k + 1].time - file_lines[k].time

(***************************************************************************)
(* Properties of extreme parameters, checked under SpecOverflow.           *)
(***************************************************************************)
\* C10: feed_bytes returns normally for every byte sequence: no panic and no
\* arithmetic overflow, whatever the magnitude of the CSI parameters.
C10_NeverFails == ~panicked /\ ~Overflowed(emu)

(***************************************************************************)
(* Properties of the scroll region and of single commands, checked under   *)
(* Spec and SpecCsi.                                                       *)
(***************************************************************************)
\* C11: in every reachable state the scroll region satisfies
\* 0 <= scroll_top <= scroll_bottom < Height.
C11_ScrollRegionValid ==
    /\ 0 <= emu.state.scroll_top
    /\ emu.state.scroll_top <= emu.state.scroll_bottom
    /\ emu.state.scroll_bottom < Height

\* C12: CSI r without parameters sets the region to rows [0, Height-1], CSI 2 r
\* sets it to [1, Height-1], and both leave the pending scroll at 0.
C12_CsiRDefaults ==
    /\ input = CsiR =>
          /\ emu.state.scroll_top = 0
          /\ emu.state.scroll_bottom = Height - 1
          /\ emu.state.scroll = 0
    /\ input = CsiRTop =>
          /\ emu.state.scroll_top = 1
          /\ emu.state.scroll_bottom = Height - 1
          /\ emu.state.scroll = 0

\* C13: after CSI 2 J followed by CSI H every cell is a blank in the default
\* colours and the cursor is at (0, 0).
C13_ClearAndHome ==
    input = ClearHome =>
        /\ emu.grid = BlankGrid
        /\ emu.state.cursor_x = 0
        /\ emu.state.cursor_y = 0

\* C18: a feed of a sequence that the dispatch table does not name leaves the
\* grid and the terminal state unchanged.
C18_UnrecognizedIgnored ==
    [][input' \in IgnoredChunks => emu'.grid = emu.grid /\ emu'.state = emu.state]_vars

(***************************************************************************)
(* Properties of the emitted frames, checked under SpecGif.                *)
(***************************************************************************)
\* the global index of the canvas pixel behind entry p of the frame's buffer
FramePixel(p) ==
    previous_frame[(frame.top + (p - 1) \div frame.width) * GifW
                   + frame.left + ((p - 1) % frame.width)]

FrameIndices == {FramePixel(p) : p \in 1..Len(frame.buffer)}

\* the pixels in which the last two canvases differ
Differing == {i \in Pixels : older_frame[i] # previous_frame[i]}

\* C14: the first add_frame emits the whole canvas; an add_frame with the same
\* canvas as the call before emits a 1x1 frame at (0, 0) in the colour of
\* canvas pixel 0.
C14_StubFrame ==
    /\ nframes = 1 =>
          /\ frame.left = 0 /\ frame.top = 0
          /\ frame.width = GifW /\ frame.height = GifH
          /\ Len(frame.buffer) = GifW * GifH
    /\ (nframes >= 2 /\ older_frame = previous_frame) =>
          /\ frame.left = 0 /\ frame.top = 0
          /\ frame.width = 1 /\ frame.height = 1
          /\ Len(frame.buffer) = 1
          /\ frame.palette[frame.buffer[1] + 1] = GlobalPalette(previous_frame[0])

\* a repeated canvas of two colours whose pixel 0 has the higher index
C14_Witness ==
    /\ nframes >= 2
    /\ older_frame = previous_frame
    /\ previous_frame[0] = 9
    /\ \E i \in Pixels : previous_frame[i] = 1

\* C15: the local palette of the emitted frame has one entry per global index
\* present in the frame's pixels, in ascending order of global index, and each
\* buffer value is a valid local index of the colour of its pixel.
C15_LocalPalette ==
    nframes > 0 =>
        /\ Len(frame.palette) = Cardinality(FrameIndices)
        /\ \A g \in FrameIndices :
              frame.palette[Cardinality({u \in FrameIndices : u <= g})] = GlobalPalette(g)
        /\ \A p \in 1..Len(frame.buffer) :
              /\ frame.buffer[p] >= 0
              /\ frame.buffer[p] < Len(frame.palette)
              /\ frame.palette[frame.buffer[p] + 1] = GlobalPalette(FramePixel(p))

\* a diff frame that holds both colours
C15_Witness ==
    /\ nframes >= 2
    /\ Len(frame.palette) = 2
    /\ frame.width * frame.height < GifW * GifH

\* C16: when the canvas differs from the one before, every differing pixel is
\* inside the emitted rectangle and each of its four edges holds one.
C16_TightBox ==
    (nframes >= 2 /\ Differing # {}) =>
        /\ \A i \in Differing :
              /\ i % GifW >= frame.left /\ i % GifW < frame.left + frame.width
              /\ i \div GifW >= frame.top /\ i \div GifW < frame.top + frame.height
        /\ \E i \in Differing : i \div GifW = frame.top
        /\ \E i \in Differing : i \div GifW = frame.top + frame.height - 1
        /\ \E i \in Differing : i % GifW = frame.left
        /\ \E i \in Differing : i % GifW = frame.left + frame.width - 1

\* a single changed pixel that is not pixel 0
C16_Witness ==
    /\ nframes >= 2
    /\ Cardinality(Differing) = 1
    /\ frame.left + frame.top > 0
    /\ frame.width = 1 /\ frame.height = 1

(***************************************************************************)
(* Properties of the frame count, checked under SpecFrames.                *)
(***************************************************************************)
\* the last event's timestamp in ticks, 0 for an empty list
Duration == IF events = <<>> THEN 0 ELSE events[Len(events)].timestamp

\* ceil(Duration * fps), with Duration in seconds
CeilFrames(fps) ==
    CHOOSE n \in -100..100 :
        /\ n * TicksPerSecond >= Duration * fps
        /\ (n - 1) * TicksPerSecond < Duration * fps

\* round(1.5 * fps)
RoundTrailer(fps) == CHOOSE n \in 0..200 : 2 * n - 1 <= 3 * fps /\ 3 * fps < 2 * n + 1

ExpectedFrames ==
    (IF CeilFrames(args.fps) < 1 THEN 1 ELSE CeilFrames(args.fps))
        + (IF args.trailer THEN RoundTrailer(args.fps) ELSE 0)

LoopDone == pc = "frames" /\ frame_num = total_frame_count

\* C17: for fps in 1..100, when the frame loop ends add_frame was called
\* max(1, ceil(duration * fps)) times, plus round(1.5 * fps) times with the
\* trailer; a trailer frame feeds no event and leaves the emulator as it was.
C17_FrameCount ==
    /\ [](LoopDone /\ args.fps \in 1..100 => nframes = ExpectedFrames)
    /\ [][(pc = "frames" /\ frame_num >= frame_count) =>
              (emu' = emu /\ event_idx' = event_idx /\ fed' = fed)]_vars

\* a finished run of three frames a second with a trailer and events left over
C17_Witness ==
    /\ LoopDone
    /\ args.trailer /\ args.fps = 3
    /\ frame_count >= 2
    /\ nframes = frame_count + 5
    /\ Len(fed) >= 1
    /\ event_idx < Len(events)

(***************************************************************************)
(* Properties of the carried tail and of escape-free input, checked under  *)
(* SpecSplit.                                                              *)
(***************************************************************************)
\* C19: a carried tail starts with ESC, and the input before the tail has
\* been consumed and rendered when feed_bytes returns.
C19_CarryOver ==
    emu.extra_text # <<>> =>
        /\ Head(emu.extra_text) = ESC
        /\ emu.grid = feed_bytes(EmulatorNew(auto_wrap),
                                 SubSeq(input, 1, pos - Len(emu.extra_text))).grid

\* C20: an input without ESC, fed in one call, parses to exactly one Text
\* event equal to the whole decoded string, nothing is carried over, and the
\* grid is the one left by rendering the whole string as text.
C20_EscapeFree ==
    (nfeeds = 1 /\ pos = Len(input) /\ ~has_escape(from_utf8_lossy(input))) =>
        /\ parse_ansi_stream_with_position(from_utf8_lossy(input)).events
              = <<TextEvent(from_utf8_lossy(input))>>
        /\ emu.extra_text = <<>>
        /\ emu.grid = cmd_render_text(EmulatorNew(auto_wrap), from_utf8_lossy(input)).grid

(***************************************************************************)
(* Properties of the CSI parameters, checked under SpecParams.             *)
(***************************************************************************)
\* the command event of the CSI sequence fed last
LastCommand == parse_ansi_stream_with_position(input).events[1]

\* the items of its parameter string, a leading '?' left out
LastItems ==
    SplitSemi(IF Len(input) > 3 /\ input[3] = 63
              THEN SubSeq(input, 4, Len(input) - 1)
              ELSE SubSeq(input, 3, Len(input) - 1), <<>>)

\* C21: the parameters of a CSI sequence keep their positions: ESC[H gives
\* [1,1], ESC[;5H gives [1,5], J/K/m without parameters give [0], A/B/C/D give
\* [1], ESC[?25l gives the key "?l" with [25], and the value of every
\* non-empty item stands at the position of its item.
C21_ParamPositions ==
    (Len(input) >= 3 /\ input[1] = ESC /\ input[2] = 91) =>
        /\ input = Csi(<<>>, 72) => LastCommand.params = <<1, 1>>
        /\ input = Csi(<<59, 53>>, 72) => LastCommand.params = <<1, 5>>
        /\ input \in {Csi(<<>>, 74), Csi(<<>>, 75), Csi(<<>>, 109)} =>
              LastCommand.params = <<0>>
        /\ input \in {Csi(<<>>, 65), Csi(<<>>, 66), Csi(<<>>, 67), Csi(<<>>, 68)} =>
              LastCommand.params = <<1>>
        /\ input = Csi(<<63, 50, 53>>, 108) =>
              LastCommand.command = <<63, 108>> /\ LastCommand.params = <<25>>
        /\ \A k \in 1..Len(LastItems) :
              LastItems[k] # <<>> =>
                  /\ Len(LastCommand.params) >= k
                  /\ LastCommand.params[k] = ParseI32(LastItems[k])

(***************************************************************************)
(* Properties of SGR, checked under SpecSgr.                               *)
(***************************************************************************)
Rendition(s) ==
    [fg |-> s.foreground, bg |-> s.background, bold |-> s.bold, reverse |-> s.reverse_video]

\* one attribute of the table of SGR parameters
SgrAttribute(r, n) ==
    IF n = 0 THEN [fg |-> DefaultFg, bg |-> DefaultBg, bold |-> FALSE, reverse |-> FALSE]
    ELSE IF n = 1 THEN [r EXCEPT !.bold = TRUE]
    ELSE IF n = 22 THEN [r EXCEPT !.bold = FALSE]
    ELSE IF n = 7 THEN [r EXCEPT !.reverse = TRUE]
    ELSE IF n = 27 THEN [r EXCEPT !.reverse = FALSE]
    ELSE IF n \in 30..37 THEN [r EXCEPT !.fg = (n - 30) + (IF r.bold THEN 8 ELSE 0)]
    ELSE IF n \in 40..47 THEN [r EXCEPT !.bg = (n - 40) + (IF r.bold THEN 8 ELSE 0)]
    ELSE IF n \in 90..97 THEN [r EXCEPT !.fg = n - 90 + 8]
    ELSE IF n \in 100..107 THEN [r EXCEPT !.bg = n - 100 + 8]
    ELSE IF n = 39 THEN [r EXCEPT !.fg = DefaultFg]
    ELSE IF n = 49 THEN [r EXCEPT !.bg = DefaultBg]
    ELSE r

\* the table applied to a parameter list, 38;5;N and 48;5;N taking three items
RECURSIVE SgrTable(_, _)
SgrTable(r, ps) ==
    IF ps = <<>> THEN r
    ELSE IF Len(ps) >= 3 /\ ps[1] = 38 /\ ps[2] = 5
    THEN SgrTable([r EXCEPT !.fg = IF ps[3] <= 255 THEN ps[3] ELSE DefaultFg],
                  SubSeq(ps, 4, Len(ps)))
    ELSE IF Len(ps) >= 3 /\ ps[1] = 48 /\ ps[2] = 5
    THEN SgrTable([r EXCEPT !.bg = IF ps[3] <= 255 THEN ps[3] ELSE DefaultBg],
                  SubSeq(ps, 4, Len(ps)))
    ELSE SgrTable(SgrAttribute(r, ps[1]), Tail(ps))

\* C22: after an SGR sequence the colours, bold and reverse are those the
\* table gives for its parameter list, applied to the rendition before it.
C22_SgrTable ==
    [][\A ps \in SgrLists :
          input' = SgrChunk(ps) =>
              Rendition(emu'.state) = SgrTable(Rendition(emu.state), ps)]_vars

(***************************************************************************)
(* Properties of the erase and delete commands, checked under SpecErase.   *)
(***************************************************************************)
BlankCell == EmptyCell(DefaultFg, DefaultBg)

\* the index of the cell under the cursor of state s
CursorIndex(s) == s.cursor_y * Width + s.cursor_x

SameCursor(s, t) == s.cursor_x = t.cursor_x /\ s.cursor_y = t.cursor_y

\* the cells CSI mode J blanks
EdRange(mode, i, s) ==
    IF mode = 0 THEN i >= CursorIndex(s)
    ELSE IF mode = 1 THEN i <= CursorIndex(s)
    ELSE TRUE

\* C23: CSI 0 J, CSI 1 J and CSI 2 J turn exactly the cells of their range
\* into blanks in the default colours, leave every other cell unchanged, and
\* leave the cursor where it was.
C23_EraseDisplay ==
    [][\A mode \in 0..2 :
          input' = Csi(Dec(mode), 74) =>
              /\ SameCursor(emu'.state, emu.state)
              /\ \A i \in DOMAIN emu.grid :
                    emu'.grid[i] = IF EdRange(mode, i, emu.state)
                                   THEN BlankCell ELSE emu.grid[i]]_vars

\* the columns of the cursor row that CSI mode K may change
ElRange(mode, x, s) ==
    IF mode = 0 THEN x >= s.cursor_x
    ELSE IF mode = 1 THEN x <= s.cursor_x
    ELSE TRUE

\* only cells of the cursor row of s inside the given columns differ
OnlyRowCells(g, h, s, InRange(_)) ==
    \A i \in DOMAIN g :
        g[i] # h[i] => (i \div Width = s.cursor_y /\ InRange(i % Width))

\* C27: CSI K (modes 0, 1, 2) and CSI 2 X change only cells of the cursor row
\* inside their range and leave the cursor column, the cursor row and the
\* pending-wrap flag as they were.
C27_EraseLineKeepsCursor ==
    [][/\ \A mode \in 0..2 :
            input' = Csi(Dec(mode), 75) =>
                /\ SameCursor(emu'.state, emu.state)
                /\ emu'.state.pending_wrap = emu.state.pending_wrap
                /\ OnlyRowCells(emu.grid, emu'.grid, emu.state,
                                LAMBDA x : ElRange(mode, x, emu.state))
       /\ input' = Csi(<<50>>, 88) =>
                /\ SameCursor(emu'.state, emu.state)
                /\ emu'.state.pending_wrap = emu.state.pending_wrap
                /\ OnlyRowCells(emu.grid, emu'.grid, emu.state,
                                LAMBDA x : x >= emu.state.cursor_x
                                           /\ x < emu.state.cursor_x + 2)]_vars

\* C28: CSI n P leaves the other rows and the columns left of the cursor
\* unchanged; from the cursor on, the row holds the former cells n columns to
\* the right, followed by blanks.
C28_DeleteCharacters ==
    [][\A n \in 1..2 :
          input' = Csi(Dec(n), 80) =>
              \A i \in DOMAIN emu.grid :
                  IF i \div Width # emu.state.cursor_y \/ i % Width < emu.state.cursor_x
                  THEN emu'.grid[i] = emu.grid[i]
                  ELSE IF (i % Width) + n < Width
                  THEN emu'.grid[i] = emu.grid[i + n]
                  ELSE emu'.grid[i].ch = SPACE]_vars


(***************************************************************************)
(* Rendering of every event, checked under SpecFrames.                     *)
(***************************************************************************)
\* every frame that feeds events has been rasterized
FedFramesDone == pc = "frames" /\ frame_num >= frame_count

\* C24: for an event list with duration > 0, once the last non-trailer frame
\* is rasterized every event has been fed: event_idx is the number of events.
C24_EveryEventRendered ==
    (FedFramesDone /\ Duration > 0) => event_idx = Len(events)


(***************************************************************************)
(* Properties of the wrap at the right margin, checked under SpecWrap.     *)
(***************************************************************************)
\* autowrap is on, a wrap is pending at the right end of the bottom row of a
\* valid region of at least two rows, and nothing else is pending
PendingAtRegionBottom(e) ==
    /\ e.extra_text = <<>>
    /\ e.state.autowrap /\ e.state.pending_wrap
    /\ e.state.cursor_x = Width - 1
    /\ 0 <= e.state.scroll_top /\ e.state.scroll_top < e.state.scroll_bottom
    /\ e.state.scroll_bottom < Height
    /\ e.state.cursor_y = e.state.scroll_bottom
    /\ e.state.scroll = 0

\* C25: with autowrap on, the cursor at (Width-1, scroll_bottom) and a wrap
\* pending, writing c and then d scrolls the region up by one: the former
\* bottom row is unmodified on row scroll_bottom-1, c is at (0, scroll_bottom),
\* d at (1, scroll_bottom) and the rest of that row is blank.
C25_AutowrapBottomRow ==
    [][(PendingAtRegionBottom(emu) /\ input' = <<99, 100>>) =>
          LET b == emu.state.scroll_bottom
          IN  /\ Row(emu'.grid, b - 1) = Row(emu.grid, b)
              /\ CellAt(emu'.grid, 0, b).ch = 99
              /\ CellAt(emu'.grid, 1, b).ch = 100
              /\ \A x \in 2..(Width - 1) : CellAt(emu'.grid, x, b) = BlankCell]_vars

\* C29: whenever pending_wrap is set, autowrap is on and cursor_x = Width-1;
\* and a printable character written directly after a cursor restore (ESC 8 or
\* CSI u) is placed exactly at the restored position.
C29_PendingWrap ==
    /\ [](emu.state.pending_wrap =>
              (emu.state.autowrap /\ emu.state.cursor_x = Width - 1))
    /\ [][(input \in CursorRestores /\ emu.extra_text = <<>> /\ input' = <<97>>) =>
              /\ emu'.grid[CursorIndex(emu.state)].ch = 97
              /\ \A i \in DOMAIN emu.grid :
                    i # CursorIndex(emu.state) => emu'.grid[i] = emu.grid[i]]_vars

(***************************************************************************)
(* The scroll an LF requests, checked under SpecErase.                     *)
(***************************************************************************)
\* the erase and delete commands that act on the cursor row or below it
EraseBelow ==
    { Csi(<<48>>, 74), Csi(<<48>>, 75), Csi(<<49>>, 75), Csi(<<50>>, 75),
      Csi(<<50>>, 88), Csi(<<49>>, 80), Csi(<<50>>, 80) }

\* the last call fed an LF on the bottom row of a valid region of at least
\* two rows, which asked for a scroll of one line
ScrollRequested ==
    /\ input = <<LF>>
    /\ emu.extra_text = <<>>
    /\ 0 <= emu.state.scroll_top /\ emu.state.scroll_top < emu.state.scroll_bottom
    /\ emu.state.scroll_bottom < Height
    /\ emu.state.cursor_y = emu.state.scroll_bottom
    /\ emu.state.scroll = 1

\* C26: a scroll an LF on the bottom row of the region requested is applied
\* before anything else: (a) a following CSI K, J, X or P leaves the line that
\* was on the bottom row before the LF on the row above, and (b) when
\* feed_bytes returns the pending scroll delta is 0.
C26_ScrollApplied ==
    /\ [][(ScrollRequested /\ input' \in EraseBelow) =>
              Row(ApplyScroll(emu').grid, emu.state.scroll_bottom - 1)
                  = Row(emu.grid, emu.state.scroll_bottom)]_vars
    /\ [](emu.state.scroll = 0)


(***************************************************************************)
(* The length of the carried tail, checked under SpecCarry.                *)
(***************************************************************************)
\* t is the beginning of a sequence the regex of the parser can still match:
\* ESC, ESC \ %, ESC ( or ), ESC [ parameters, ESC ] or ESC k and text
SequencePrefix(t) ==
    /\ Len(t) >= 1 /\ t[1] = ESC
    /\ \/ Len(t) = 1
       \/ t[2] = 92 /\ (Len(t) = 2 \/ (Len(t) = 3 /\ t[3] = 37))
       \/ t[2] \in {40, 41} /\ Len(t) = 2
       \/ t[2] = 91 /\ \A i \in 3..Len(t) : IsParamChar(t[i])
       \/ t[2] \in {93, 107} /\ \A i \in 3..Len(t) : t[i] # LF

\* C30: the tail carried to the next call is never longer than the beginning
\* of a recognized escape sequence; an ESC that starts no recognized sequence
\* does not keep the plain text of a later chunk from the grid.
C30_BoundedCarry ==
    /\ [](emu.extra_text = <<>> \/ SequencePrefix(emu.extra_text))
    /\ [][(emu.extra_text = <<ESC, 33>> /\ ~emu.state.pending_wrap
              /\ input' = <<97>>) =>
              /\ emu'.grid[CursorIndex(emu.state)].ch = 97
              /\ Len(emu'.extra_text) <= Len(emu.extra_text)]_vars

====
